---- MODULE Spec2Model ----
(***************************************************************************)
(* A model of jaq's input-transform engine (package transform):            *)
(* InputToCommands, readData, transform, dataLookup, parseTransform,       *)
(* jsonQuery and truncatedValue, together with the library routines they   *)
(* call (encoding/json's Decoder, bufio.Scanner with ScanWords, os.Expand,  *)
(* strconv.Atoi, gabs.ParseJSON/Path, json.Marshal and fmt.Sprint), and of  *)
(* package cmd's processResponse and the loop of execute.                  *)
(*                                                                         *)
(* Text is a sequence of one-character strings.  The piped input is a      *)
(* byte stream; readData is a loop whose position is pc.                   *)
(*                                                                         *)
(* Spec      InputToCommands on a pipe that delivers its bytes whole       *)
(* SpecEdge  InputToCommands on scalars, stray brackets and over-long      *)
(*           words, on a pipe that may deliver a byte or two per Read      *)
(* SpecTail  InputToCommands on nulls, empty arrays and cut-off objects, on *)
(*           a pipe that ends in io.EOF or in a read error                 *)
(* SpecPure  parseTransform, transform, truncatedValue and processResponse *)
(*           each called on its own                                        *)
(* SpecExec  execute's loop over the command rows                          *)
(***************************************************************************)
EXTENDS Integers, Sequences, FiniteSets, TLC

(***************************************************************************)
(* Characters                                                              *)
(***************************************************************************)

\* The characters that occur in the model, in increasing byte order.
Ascii ==
    << "\t", "\n", "\r", " ", "\"", "$", ",", "-", ".",
       "0", "1", "2", "3", "4", "5", "6", "7", "8", "9",
       ":", "<", ">", "[", "]", "_",
       "a", "b", "c", "d", "e", "f", "g", "h", "i", "j", "k", "l", "m",
       "n", "o", "p", "q", "r", "s", "t", "u", "v", "w", "x", "y", "z",
       "{", "}" >>

Code(c) == CHOOSE i \in 1..Len(Ascii) : Ascii[i] = c

Digits == <<"0", "1", "2", "3", "4", "5", "6", "7", "8", "9">>

DigitSet == {Digits[i] : i \in 1..10}

DigitVal(c) == (CHOOSE i \in 1..10 : Digits[i] = c) - 1

LowerSet ==
    {"a", "b", "c", "d", "e", "f", "g", "h", "i", "j", "k", "l", "m",
     "n", "o", "p", "q", "r", "s", "t", "u", "v", "w", "x", "y", "z"}

\* encoding/json scanner.go isSpace
isSpace(c) == c \in {" ", "\t", "\r", "\n"}

\* bytes below 0x20 are rejected inside a JSON string literal
isControl(c) == c \in {"\t", "\r", "\n"}

\* s[i..] and s[..i-1]
From(s, i) == SubSeq(s, i, Len(s))

Upto(s, i) == SubSeq(s, 1, i - 1)

RECURSIVE Less(_, _)
\* byte-wise lexicographic order on text (sort order of map keys)
Less(a, b) ==
    IF b = <<>> THEN FALSE
    ELSE IF a = <<>> THEN TRUE
    ELSE IF a[1] # b[1] THEN Code(a[1]) < Code(b[1])
    ELSE Less(Tail(a), Tail(b))

(***************************************************************************)
(* Decoded JSON values (Go's interface{} after Unmarshal)                  *)
(***************************************************************************)

NullV == [t |-> "null"]

BoolV(b) == [t |-> "bool", b |-> b]

NumV(n) == [t |-> "num", n |-> n]

StrV(s) == [t |-> "str", s |-> s]

ArrV(es) == [t |-> "arr", es |-> es]

\* map[string]interface{}: members kept in key order, one per key
ObjV(ms) == [t |-> "obj", ms |-> ms]

RECURSIVE PutMember(_, _, _)
\* m[k] = v on a map kept as a key-sorted member list
PutMember(ms, k, v) ==
    IF ms = <<>> THEN << [k |-> k, v |-> v] >>
    ELSE IF ms[1].k = k THEN << [k |-> k, v |-> v] >> \o Tail(ms)
    ELSE IF Less(k, ms[1].k) THEN << [k |-> k, v |-> v] >> \o ms
    ELSE << ms[1] >> \o PutMember(Tail(ms), k, v)

HasKey(ms, k) == \E i \in 1..Len(ms) : ms[i].k = k

Lookup(ms, k) == ms[CHOOSE i \in 1..Len(ms) : ms[i].k = k].v

(***************************************************************************)
(* encoding/json scanner: the value that starts at a position of a text    *)
(***************************************************************************)

\* result of scanning one value: st is "ok" (value v, next byte at end),
\* "syntax" (offending byte at end) or "eof" (text ended inside the value)
Ok(v, e) == [st |-> "ok", v |-> v, end |-> e]

SyntaxErr(p) == [st |-> "syntax", v |-> NullV, end |-> p]

UnexpEOF(s) == [st |-> "eof", v |-> NullV, end |-> Len(s) + 1]

RECURSIVE SkipSpace(_, _)
SkipSpace(s, i) ==
    IF i <= Len(s) /\ isSpace(s[i]) THEN SkipSpace(s, i + 1) ELSE i

RECURSIVE ScanString(_, _, _)
\* the bytes after an opening quote, up to the closing quote
ScanString(s, i, acc) ==
    IF i > Len(s) THEN UnexpEOF(s)
    ELSE IF s[i] = "\"" THEN Ok(StrV(acc), i + 1)
    ELSE IF isControl(s[i]) THEN SyntaxErr(i)
    ELSE ScanString(s, i + 1, Append(acc, s[i]))

RECURSIVE ScanDigits(_, _, _, _)
ScanDigits(s, i, n, sign) ==
    IF i <= Len(s) /\ s[i] \in DigitSet
    THEN ScanDigits(s, i + 1, 10 * n + DigitVal(s[i]), sign)
    ELSE Ok(NumV(sign * n), i)

\* an integer literal: -? ( 0 | [1-9][0-9]* )
ScanNumber(s, i) ==
    LET sign == IF s[i] = "-" THEN -1 ELSE 1
        j == IF s[i] = "-" THEN i + 1 ELSE i
    IN  IF j > Len(s) THEN UnexpEOF(s)
        ELSE IF s[j] = "0" THEN Ok(NumV(0), j + 1)
        ELSE IF s[j] \in DigitSet THEN ScanDigits(s, j, 0, sign)
        ELSE SyntaxErr(j)

RECURSIVE ScanLiteral(_, _, _, _, _)
\* the rest lit[k..] of true, false or null
ScanLiteral(s, i, lit, k, v) ==
    IF k > Len(lit) THEN Ok(v, i)
    ELSE IF i > Len(s) THEN UnexpEOF(s)
    ELSE IF s[i] = lit[k] THEN ScanLiteral(s, i + 1, lit, k + 1, v)
    ELSE SyntaxErr(i)

RECURSIVE ScanValue(_, _)
RECURSIVE ScanElems(_, _, _)
RECURSIVE ScanMembers(_, _, _)

ScanValue(s, i0) ==
    LET i == SkipSpace(s, i0)
    IN  IF i > Len(s) THEN UnexpEOF(s)
        ELSE CASE s[i] = "{" ->
                    LET j == SkipSpace(s, i + 1)
                    IN  IF j > Len(s) THEN UnexpEOF(s)
                        ELSE IF s[j] = "}" THEN Ok(ObjV(<<>>), j + 1)
                        ELSE ScanMembers(s, j, <<>>)
               [] s[i] = "[" ->
                    LET j == SkipSpace(s, i + 1)
                    IN  IF j > Len(s) THEN UnexpEOF(s)
                        ELSE IF s[j] = "]" THEN Ok(ArrV(<<>>), j + 1)
                        ELSE ScanElems(s, j, <<>>)
               [] s[i] = "\"" -> ScanString(s, i + 1, <<>>)
               [] s[i] = "-" \/ s[i] \in DigitSet -> ScanNumber(s, i)
               [] s[i] = "t" ->
                    ScanLiteral(s, i + 1, <<"r", "u", "e">>, 1, BoolV(TRUE))
               [] s[i] = "f" ->
                    ScanLiteral(s, i + 1, <<"a", "l", "s", "e">>, 1, BoolV(FALSE))
               [] s[i] = "n" ->
                    ScanLiteral(s, i + 1, <<"u", "l", "l">>, 1, NullV)
               [] OTHER -> SyntaxErr(i)

\* array elements from position i on, after the elements es
ScanElems(s, i, es) ==
    LET r == ScanValue(s, i)
    IN  IF r.st # "ok" THEN r
        ELSE LET j == SkipSpace(s, r.end)
             IN  IF j > Len(s) THEN UnexpEOF(s)
                 ELSE IF s[j] = "," THEN ScanElems(s, j + 1, Append(es, r.v))
                 ELSE IF s[j] = "]" THEN Ok(ArrV(Append(es, r.v)), j + 1)
                 ELSE SyntaxErr(j)

\* object members from the non-space position i on, after the members ms
ScanMembers(s, i, ms) ==
    IF i > Len(s) THEN UnexpEOF(s)
    ELSE IF s[i] # "\"" THEN SyntaxErr(i)
    ELSE LET k == ScanString(s, i + 1, <<>>)
         IN  IF k.st # "ok" THEN k
             ELSE LET c == SkipSpace(s, k.end)
                  IN  IF c > Len(s) THEN UnexpEOF(s)
                      ELSE IF s[c] # ":" THEN SyntaxErr(c)
                      ELSE LET r == ScanValue(s, c + 1)
                           IN  IF r.st # "ok" THEN r
                               ELSE LET j == SkipSpace(s, r.end)
                                        ms2 == PutMember(ms, k.v.s, r.v)
                                    IN  IF j > Len(s) THEN UnexpEOF(s)
                                        ELSE IF s[j] = ","
                                        THEN ScanMembers(s, SkipSpace(s, j + 1), ms2)
                                        ELSE IF s[j] = "}" THEN Ok(ObjV(ms2), j + 1)
                                        ELSE SyntaxErr(j)

\* json.Unmarshal of a whole text into an interface{}: one value, then
\* nothing but white space
Unmarshal(s) ==
    LET r == ScanValue(s, 1)
    IN  IF r.st = "ok" /\ SkipSpace(s, r.end) > Len(s)
        THEN [ok |-> TRUE, v |-> r.v]
        ELSE [ok |-> FALSE, v |-> NullV]

(***************************************************************************)
(* json.Marshal and fmt.Sprint of a decoded value                          *)
(***************************************************************************)

RECURSIVE NatText(_)
NatText(n) == IF n < 10 THEN <<Digits[n + 1]>>
              ELSE NatText(n \div 10) \o <<Digits[(n % 10) + 1]>>

\* an integral float64 below 1e21 prints as an integer
NumText(n) == IF n < 0 THEN <<"-">> \o NatText(-n) ELSE NatText(n)

Quote(s) == <<"\"">> \o s \o <<"\"">>

RECURSIVE Marshal(_)
RECURSIVE MarshalElems(_)
RECURSIVE MarshalMembers(_)

\* compact JSON text; object keys in sorted order
Marshal(v) ==
    CASE v.t = "null" -> <<"n", "u", "l", "l">>
      [] v.t = "bool" -> IF v.b THEN <<"t", "r", "u", "e">>
                         ELSE <<"f", "a", "l", "s", "e">>
      [] v.t = "num" -> NumText(v.n)
      [] v.t = "str" -> Quote(v.s)
      [] v.t = "arr" -> <<"[">> \o MarshalElems(v.es) \o <<"]">>
      [] v.t = "obj" -> <<"{">> \o MarshalMembers(v.ms) \o <<"}">>

MarshalElems(es) ==
    IF es = <<>> THEN <<>>
    ELSE IF Len(es) = 1 THEN Marshal(es[1])
    ELSE Marshal(es[1]) \o <<",">> \o MarshalElems(Tail(es))

MarshalMembers(ms) ==
    IF ms = <<>> THEN <<>>
    ELSE LET one == Quote(ms[1].k) \o <<":">> \o Marshal(ms[1].v)
         IN  IF Len(ms) = 1 THEN one
             ELSE one \o <<",">> \o MarshalMembers(Tail(ms))

NilText == <<"<", "n", "i", "l", ">">>

RECURSIVE Sprint(_)
RECURSIVE SprintElems(_)
RECURSIVE SprintMembers(_)

\* fmt.Sprint (%v) of a decoded value
Sprint(v) ==
    CASE v.t = "null" -> NilText
      [] v.t = "bool" -> IF v.b THEN <<"t", "r", "u", "e">>
                         ELSE <<"f", "a", "l", "s", "e">>
      [] v.t = "num" -> NumText(v.n)
      [] v.t = "str" -> v.s
      [] v.t = "arr" -> <<"[">> \o SprintElems(v.es) \o <<"]">>
      [] v.t = "obj" -> <<"m", "a", "p", "[">> \o SprintMembers(v.ms) \o <<"]">>

SprintElems(es) ==
    IF es = <<>> THEN <<>>
    ELSE IF Len(es) = 1 THEN Sprint(es[1])
    ELSE Sprint(es[1]) \o <<" ">> \o SprintElems(Tail(es))

SprintMembers(ms) ==
    IF ms = <<>> THEN <<>>
    ELSE LET one == ms[1].k \o <<":">> \o Sprint(ms[1].v)
         IN  IF Len(ms) = 1 THEN one
             ELSE one \o <<" ">> \o SprintMembers(Tail(ms))

(***************************************************************************)
(* bufio.ScanWords, strings.SplitN / Split, strconv.Atoi                   *)
(***************************************************************************)

\* bufio's isSpace on the ASCII range
isWordSpace(c) == c \in {" ", "\t", "\n", "\r"}

RECURSIVE ScanWords(_, _, _, _)
\* the tokens a bufio.Scanner with ScanWords yields for the text s, read to
\* its end: the last token needs no white space after it
ScanWords(s, i, cur, acc) ==
    IF i > Len(s) THEN (IF cur = <<>> THEN acc ELSE Append(acc, cur))
    ELSE IF isWordSpace(s[i])
         THEN ScanWords(s, i + 1, <<>>, IF cur = <<>> THEN acc ELSE Append(acc, cur))
         ELSE ScanWords(s, i + 1, Append(cur, s[i]), acc)

\* position of the first c in s, 0 if none
IndexOf(s, c) ==
    IF \E i \in 1..Len(s) : s[i] = c
    THEN CHOOSE i \in 1..Len(s) : s[i] = c /\ \A j \in 1..(i - 1) : s[j] # c
    ELSE 0

RECURSIVE Split(_, _)
\* strings.Split(s, c)
Split(s, c) ==
    LET p == IndexOf(s, c)
    IN  IF p = 0 THEN <<s>> ELSE <<Upto(s, p)>> \o Split(From(s, p + 1), c)

RECURSIVE DigitsVal(_, _)
DigitsVal(s, n) ==
    IF s = <<>> THEN n ELSE DigitsVal(Tail(s), 10 * n + DigitVal(s[1]))

\* strconv.Atoi: an optional sign and at least one digit, nothing else
Atoi(s) ==
    LET signed == s # <<>> /\ s[1] \in {"+", "-"}
        ds == IF signed THEN Tail(s) ELSE s
    IN  IF ds # <<>> /\ \A i \in 1..Len(ds) : ds[i] \in DigitSet
        THEN [ok |-> TRUE,
              n |-> IF signed /\ s[1] = "-" THEN 0 - DigitsVal(ds, 0)
                    ELSE DigitsVal(ds, 0)]
        ELSE [ok |-> FALSE, n |-> 0]

(***************************************************************************)
(* gabs: Container.Path and Container.Data                                 *)
(***************************************************************************)

\* a nil *Container
NilContainer == [nil |-> TRUE, v |-> NullV]

Container(v) == [nil |-> FALSE, v |-> v]

RECURSIVE Search(_, _)
RECURSIVE SearchEach(_, _)

\* Container.Search: follow the hierarchy h; at an array, search every
\* element for the rest of the hierarchy and collect what was found
Search(object, h) ==
    IF h = <<>> THEN Container(object)
    ELSE IF object.t = "obj"
         THEN IF HasKey(object.ms, h[1])
              THEN Search(Lookup(object.ms, h[1]), Tail(h))
              ELSE NilContainer
    ELSE IF object.t = "arr"
         THEN LET tmpArray == SearchEach(object.es, h)
              IN  IF tmpArray = <<>> THEN NilContainer
                  ELSE Container(ArrV(tmpArray))
    ELSE NilContainer

SearchEach(es, h) ==
    IF es = <<>> THEN <<>>
    ELSE LET res == Search(es[1], h)
         IN  (IF res.nil THEN <<>> ELSE <<res.v>>) \o SearchEach(Tail(es), h)

\* Container.Path(path).Data()
PathData(v, path) == Search(v, Split(path, ".")).v

(***************************************************************************)
(* package transform: the pure functions                                   *)
(***************************************************************************)

\* jsonQuery that returns the empty string when the field is not JSON
jsonQuery_EmptyOnError(data, query) ==
    LET jsonParsed == Unmarshal(data)
    IN  IF ~jsonParsed.ok THEN <<>>
        ELSE Sprint(PathData(jsonParsed.v, query))

\* jsonQuery (transform.go)
jsonQuery(data, query) ==
    LET jsonParsed == Unmarshal(data)
    IN  IF ~jsonParsed.ok THEN NilText
        ELSE Sprint(PathData(jsonParsed.v, query))

\* parseTransform that keeps the text after the dot when the text before it
\* is not a number
parseTransform_KeepsSplit(s) ==
    LET dot == IndexOf(s, ".")
    IN  IF dot = 0
        THEN (IF Atoi(s).ok
              THEN [position |-> Atoi(s).n, jsonQuery |-> <<>>]
              ELSE [position |-> 1, jsonQuery |-> s])
        ELSE (IF Atoi(Upto(s, dot)).ok
              THEN [position |-> Atoi(Upto(s, dot)).n,
                    jsonQuery |-> From(s, dot + 1)]
              ELSE [position |-> 1, jsonQuery |-> From(s, dot + 1)])

\* parseTransform (transform.go)
parseTransform(s) ==
    LET dot == IndexOf(s, ".")
    IN  IF dot = 0
        THEN (IF Atoi(s).ok
              THEN [position |-> Atoi(s).n, jsonQuery |-> <<>>]
              ELSE [position |-> 1, jsonQuery |-> s])
        ELSE (IF Atoi(Upto(s, dot)).ok
              THEN [position |-> Atoi(Upto(s, dot)).n,
                    jsonQuery |-> From(s, dot + 1)]
              ELSE [position |-> 1, jsonQuery |-> s])

\* an expansion result: the text, or a run-time panic
Text(s) == [panic |-> FALSE, s |-> s]

Panic == [panic |-> TRUE, s |-> <<>>]

\* the closure dataLookup(data) applied to the marker name s; data[pos-1]
\* with pos = 0 indexes the slice at -1, a run-time panic
dataLookup(data, s) ==
    LET p == parseTransform(s)
    IN  IF p.position > Len(data) \/ p.position < 0 THEN Text(NilText)
        ELSE IF p.position = 0 THEN Panic
        ELSE IF p.jsonQuery = <<>> THEN Text(data[p.position])
        ELSE Text(jsonQuery(data[p.position], p.jsonQuery))

(***************************************************************************)
(* os.Expand                                                               *)
(***************************************************************************)

isShellSpecialVar(c) ==
    c \in {"*", "#", "$", "@", "!", "?", "-"} \cup DigitSet

UpperSet ==
    {"A", "B", "C", "D", "E", "F", "G", "H", "I", "J", "K", "L", "M",
     "N", "O", "P", "Q", "R", "S", "T", "U", "V", "W", "X", "Y", "Z"}

isAlphaNum(c) == c \in ({"_"} \cup DigitSet \cup LowerSet \cup UpperSet)

RECURSIVE AlphaNumLen(_, _)
\* number of leading alphanumerics of s, counted from n
AlphaNumLen(s, n) ==
    IF n < Len(s) /\ isAlphaNum(s[n + 1]) THEN AlphaNumLen(s, n + 1) ELSE n

\* getShellName that takes no byte on bad syntax, so that os.Expand keeps
\* the '$' and copies on
getShellName_KeepsBadSyntax(s) ==
    IF s[1] = "{"
    THEN IF Len(s) > 2 /\ isShellSpecialVar(s[2]) /\ s[3] = "}"
         THEN [name |-> <<s[2]>>, w |-> 3]
         ELSE LET close == IndexOf(s, "}")
              IN  IF close = 0 \/ close = 2 THEN [name |-> <<>>, w |-> 0]
                  ELSE [name |-> SubSeq(s, 2, close - 1), w |-> close]
    ELSE IF isShellSpecialVar(s[1]) THEN [name |-> <<s[1]>>, w |-> 1]
    ELSE [name |-> SubSeq(s, 1, AlphaNumLen(s, 0)), w |-> AlphaNumLen(s, 0)]

\* getShellName: the name that starts the non-empty text s (the text after
\* a '$') and the number of bytes it takes
getShellName(s) ==
    IF s[1] = "{"
    THEN IF Len(s) > 2 /\ isShellSpecialVar(s[2]) /\ s[3] = "}"
         THEN [name |-> <<s[2]>>, w |-> 3]
         ELSE LET close == IndexOf(s, "}")
              IN  IF close = 0 THEN [name |-> <<>>, w |-> 1]
                  ELSE IF close = 2 THEN [name |-> <<>>, w |-> 2]
                  ELSE [name |-> SubSeq(s, 2, close - 1), w |-> close]
    ELSE IF isShellSpecialVar(s[1]) THEN [name |-> <<s[1]>>, w |-> 1]
    ELSE [name |-> SubSeq(s, 1, AlphaNumLen(s, 0)), w |-> AlphaNumLen(s, 0)]

RECURSIVE Expand(_, _, _)
\* os.Expand(s, dataLookup(data)) from position j of s on
Expand(s, j, data) ==
    IF j > Len(s) THEN Text(<<>>)
    ELSE IF s[j] = "$" /\ j < Len(s)
         THEN LET nm == getShellName(From(s, j + 1))
                  sub == IF nm.name = <<>> /\ nm.w > 0 THEN Text(<<>>)
                         ELSE IF nm.name = <<>> THEN Text(<<"$">>)
                         ELSE dataLookup(data, nm.name)
                  rest == Expand(s, j + nm.w + 1, data)
              IN  IF sub.panic \/ rest.panic THEN Panic
                  ELSE Text(sub.s \o rest.s)
         ELSE LET rest == Expand(s, j + 1, data)
              IN  IF rest.panic THEN Panic ELSE Text(<<s[j]>> \o rest.s)

\* transform (transform.go)
transform(data, arg) == Expand(arg, 1, data)

(***************************************************************************)
(* The piped input and the templates                                       *)
(***************************************************************************)

\* most pieces in one piped input
MaxFrags == 3

\* the bufio.Scanner's maxTokenSize scaled down: above every word of the
\* inputs but the one of the piece lq
ScaledTokenSize == 30

\* the pieces a piped input is made of
FragText ==
    [ sp  |-> <<" ">>,
      nl  |-> <<"\n">>,
      c   |-> <<"c">>,
      d   |-> <<"d">>,
      t   |-> <<"t">>,
      \* {"x":"y"}
      oxy |-> <<"{", "\"", "x", "\"", ":", "\"", "y", "\"", "}">>,
      \* {"x":"z", "a":"c"} over three lines
      oml |-> <<"{", "\n", "\"", "x", "\"", ":", "\"", "z", "\"", ",", "\n",
                "\"", "a", "\"", ":", "\"", "c", "\"", "}">>,
      \* [{"a":"c"},{"a":"d"}]
      arr |-> <<"[", "{", "\"", "a", "\"", ":", "\"", "c", "\"", "}", ",",
                "{", "\"", "a", "\"", ":", "\"", "d", "\"", "}", "]">>,
      \* [{"a":"c"},1]
      mix |-> <<"[", "{", "\"", "a", "\"", ":", "\"", "c", "\"", "}", ",",
                "1", "]">>,
      \* 1
      one |-> <<"1">>,
      \* "s"
      str |-> <<"\"", "s", "\"">>,
      \* true
      tru |-> <<"t", "r", "u", "e">>,
      \* ]
      rb  |-> <<"]">>,
      \* a string literal of ScaledTokenSize letters broken by a line end
      lq  |-> <<"\"">> \o [i \in 1..ScaledTokenSize |-> "c"] \o <<"\n">>,
      \* null
      nul |-> <<"n", "u", "l", "l">>,
      \* {"a":
      ob  |-> <<"{", "\"", "a", "\"", ":">>,
      \* []
      ea  |-> <<"[", "]">> ]

\* the pieces of plain text and of JSON objects and arrays
FragNames == {"sp", "nl", "c", "d", "t", "oxy", "oml", "arr", "mix"}

\* the pieces of scalars, stray brackets and over-long words, with some of
\* FragNames
EdgeNames == {"sp", "c", "d", "oxy", "one", "str", "tru", "rb", "lq"}

RECURSIVE Concat(_)
\* the bytes of a sequence of pieces
Concat(fs) == IF fs = <<>> THEN <<>> ELSE FragText[fs[1]] \o Concat(Tail(fs))

Inputs == UNION {[1..n -> FragNames] : n \in 0..MaxFrags}

\* the pieces of a null, of an object that is cut off and of an empty array,
\* with some of FragNames
TailNames == {"sp", "c", "oxy", "nul", "ob", "ea"}

TailInputs == UNION {[1..n -> TailNames] : n \in 0..MaxFrags}

\* inputs of edge pieces, with at most one over-long word
EdgeInputs ==
    {fs \in UNION {[1..n -> EdgeNames] : n \in 0..MaxFrags} :
        Cardinality({i \in 1..Len(fs) : fs[i] = "lq"}) <= 1}

\* most bytes of one Read of a slow pipe
MaxChunk == 2

\* a b $1
TplPos == <<"a", " ", "b", " ", "$", "1">>

\* a b ${1.x}
TplPath == <<"a", " ", "b", " ", "$", "{", "1", ".", "x", "}">>

\* a b ${1.a} $1
TplBoth == <<"a", " ", "b", " ", "$", "{", "1", ".", "a", "}", " ", "$", "1">>

\* a b $3 ${3.zzz}
TplHigh == <<"a", " ", "b", " ", "$", "3", " ",
             "$", "{", "3", ".", "z", "z", "z", "}">>

\* ${-1}
TplNeg == <<"$", "{", "-", "1", "}">>

\* a $0
TplZero == <<"a", " ", "$", "0">>

\* foo $1.x
TplBare == <<"f", "o", "o", " ", "$", "1", ".", "x">>

\* foo ${1.x}
TplBraced == <<"f", "o", "o", " ", "$", "{", "1", ".", "x", "}">>

\* the template lists InputToCommands is called with
ArgLists ==
    { <<>>,
      <<TplPos>>,
      <<TplPath, TplPos>>,
      <<TplBoth>>,
      <<TplHigh, TplNeg>>,
      <<TplZero>>,
      <<TplBare, TplBraced>> }

(***************************************************************************)
(* State                                                                   *)
(***************************************************************************)

VARIABLES
    piped,          \* the pieces written to the pipe
    args,           \* InputToCommands' args
    explodeArrays,  \* InputToCommands' explodeArrays
    chunk,          \* most bytes one Read of the pipe delivers
    maxTokenSize,   \* the bufio.Scanner's maxTokenSize
    readFails,      \* the pipe ends in a read error instead of io.EOF
    r,              \* the reader: bytes not read yet
    buf,            \* the decoder's buffer from its scan position on
    data,           \* readData's data
    pc,             \* "more", "decode", "expand", "done", "error", "panic",
                    \* "fatal"; "idle" when InputToCommands is not called
    err,            \* the error InputToCommands returns
    errText,        \* the value text the error carries
    cmds,           \* the matrix InputToCommands returns; <<>> is nil
    call,           \* a function called by itself: its name and argument
    ret,            \* <<>> until that call returns, then <<its result>>
    exec            \* the state of cmd.execute's loop over the rows

vars == <<piped, args, explodeArrays, chunk, maxTokenSize, readFails, r, buf,
          data, pc,
          err, errText, cmds, call, ret, exec>>

\* what InputToCommands leaves alone
others == <<call, ret, exec>>

NoError == "nil"

\* encoding/json's minRead: the size of the decoder's first Read, more than
\* any piped input here, so that a pipe that has all its bytes delivers them
\* in one Read
minRead == 512

\* bufio.MaxScanTokenSize, the maxTokenSize bufio.NewScanner sets
MaxScanTokenSize == 65536

\* no call of a function by itself
NoCall == [fn |-> "none"]

\* cmd.execute not running
NoExec == [pc |-> "idle"]

Init ==
    /\ piped \in Inputs
    /\ args \in ArgLists
    /\ explodeArrays \in BOOLEAN
    /\ chunk = minRead
    /\ maxTokenSize = MaxScanTokenSize
    /\ readFails = FALSE
    /\ r = Concat(piped)
    /\ buf = <<>>
    /\ data = <<>>
    /\ pc = "more"
    /\ err = NoError
    /\ errText = <<>>
    /\ cmds = <<>>
    /\ call = NoCall
    /\ ret = <<>>
    /\ exec = NoExec

(***************************************************************************)
(* encoding/json Decoder                                                   *)
(***************************************************************************)

\* Decoder.refill: one Read appended to the buffer; the reader hands over at
\* most chunk bytes
refill(b, rd) ==
    LET n == IF Len(rd) < chunk THEN Len(rd) ELSE chunk
    IN  [buf |-> b \o SubSeq(rd, 1, n), r |-> From(rd, n + 1)]

RECURSIVE peek(_, _)
\* Decoder.peek: skip white space, reading more as long as there is more;
\* eof when the input ends first
peek(b, rd) ==
    LET i == SkipSpace(b, 1)
    IN  IF i <= Len(b) THEN [eof |-> FALSE, buf |-> From(b, i), r |-> rd]
        ELSE IF rd = <<>> THEN [eof |-> TRUE, buf |-> <<>>, r |-> rd]
        ELSE peek(refill(<<>>, rd).buf, refill(<<>>, rd).r)

RECURSIVE readValue(_, _)
\* Decoder.readValue: scan one value in the buffer, reading more while the
\* buffer ends inside the value, or right after a string, number or literal
readValue(b, rd) ==
    LET res == ScanValue(b, 1)
        short == \/ res.st = "eof"
                 \/ /\ res.st = "ok"
                    /\ res.end > Len(b)
                    /\ res.v.t \notin {"obj", "arr"}
    IN  IF short /\ rd # <<>>
        THEN readValue(refill(b, rd).buf, refill(b, rd).r)
        ELSE [res |-> res, buf |-> b, r |-> rd, short |-> short]

(***************************************************************************)
(* truncatedValue                                                          *)
(***************************************************************************)

truncationLength == 512

\* one character as strconv.Quote writes it
QuoteChar(c) ==
    CASE c = "\"" -> <<"\\", "\"">>
      [] c = "\\" -> <<"\\", "\\">>
      [] c = "\n" -> <<"\\", "n">>
      [] c = "\r" -> <<"\\", "r">>
      [] c = "\t" -> <<"\\", "t">>
      [] OTHER -> <<c>>

RECURSIVE QuoteChars(_)
QuoteChars(s) ==
    IF s = <<>> THEN <<>>
    ELSE IF Len(s) = 1 THEN QuoteChar(s[1])
    ELSE QuoteChars(SubSeq(s, 1, Len(s) \div 2))
            \o QuoteChars(SubSeq(s, Len(s) \div 2 + 1, Len(s)))

\* fmt's %q of a string: strconv.Quote
GoQuote(s) == <<"\"">> \o QuoteChars(s) \o <<"\"">>

\* ...\n[Value truncated]
TruncatedSuffix ==
    <<".", ".", ".", "\n", "[", "V", "a", "l", "u", "e", " ",
      "t", "r", "u", "n", "c", "a", "t", "e", "d", "]">>

\* truncatedValue that also cuts a rendering of exactly truncationLength
truncatedValue_CutsAtLength(i) ==
    LET s == Sprint(i)
    IN  IF Len(s) >= truncationLength
        THEN GoQuote(SubSeq(s, 1, truncationLength)) \o TruncatedSuffix
        ELSE s

truncatedValue(i) ==
    LET s == Sprint(i)
    IN  IF Len(s) > truncationLength
        THEN GoQuote(SubSeq(s, 1, truncationLength)) \o TruncatedSuffix
        ELSE s

(***************************************************************************)
(* readData and InputToCommands                                            *)
(***************************************************************************)

\* one record per text
Rows(ws) == [i \in 1..Len(ws) |-> <<ws[i]>>]

\* case nil of readData: the words of the buffered bytes b, one record each
WordRows(b) == Rows(ScanWords(b, 1, <<>>, <<>>))

\* ObjectRows with fmt.Sprint in place of json.Marshal
ObjectRows_Sprint(raw) == << <<Sprint(raw)>> >>

\* case map[string]interface{} of readData
ObjectRows(raw) == << <<Marshal(raw)>> >>

\* number of leading elements of es that are JSON objects
RECURSIVE ObjectPrefix(_)
ObjectPrefix(es) ==
    IF es # <<>> /\ es[1].t = "obj" THEN 1 + ObjectPrefix(Tail(es)) ELSE 0

\* ExplodeRows that prepends each element instead of appending it
ExplodeRows_Reversed(es) ==
    [i \in 1..ObjectPrefix(es) |-> <<Marshal(es[ObjectPrefix(es) + 1 - i])>>]

\* ExplodeRows that gives an array without elements one record, its text
ExplodeRows_EmptyIsRecord(es) ==
    IF es = <<>> THEN << <<<<"[", "]">>>> >>
    ELSE [i \in 1..ObjectPrefix(es) |-> <<Marshal(es[i])>>]

\* the explodeArrays branch of readData: one record per element, up to the
\* first element that is not an object
ExplodeRows(es) == [i \in 1..ObjectPrefix(es) |-> <<Marshal(es[i])>>]

\* ArrayRows that explodes whatever explodeArrays says
ArrayRows_AlwaysExplode(raw, explode) == ExplodeRows(raw.es)

\* case []interface{} of readData
ArrayRows(raw, explode) ==
    IF explode THEN ExplodeRows(raw.es) ELSE << <<Marshal(raw)>> >>

\* readData's "for dec.More()"
More ==
    /\ pc = "more"
    /\ LET p == peek(buf, r)
       IN  /\ buf' = p.buf
           /\ r' = p.r
           /\ pc' = IF ~p.eof /\ p.buf[1] \notin {"]", "}"}
                    THEN "decode" ELSE "expand"
    /\ UNCHANGED <<piped, args, explodeArrays, chunk, maxTokenSize, readFails,
                   data, err,
                   errText, cmds, others>>

\* Fail that returns the records of the earlier values along with the error
Fail_Partial(e) ==
    /\ pc' = "error"
    /\ err' = e
    /\ cmds' = data

\* Fail that notes the error and lets the loop go on
Fail_Continues(e) ==
    /\ pc' = "more"
    /\ err' = e
    /\ cmds' = <<>>

\* readData returns nil, err and InputToCommands returns nil, err
Fail(e) ==
    /\ pc' = "error"
    /\ err' = e
    /\ cmds' = <<>>

\* Restart on the buffered bytes alone, without the rest of the stream
Restart_BufferedOnly(sub, rd) == sub

\* the rest of the input after case nil: io.MultiReader(subR, r), where sub is
\* what the scanner left unread of the buffered bytes
Restart(sub, rd) == sub \o rd

\* scanner.Err() after the loop over scanner.Scan(): bufio.ErrTooLong when a
\* word fills a scanner buffer of maxTokenSize bytes
TooLong(ws) == \E i \in 1..Len(ws) : Len(ws[i]) >= maxTokenSize

\* the body of readData's loop: dec.Decode and the switch on the value
Decode ==
    /\ pc = "decode"
    /\ LET rv == readValue(buf, r)
           res == rv.res
           raw == res.v
           subR == IF res.st = "syntax" THEN rv.buf ELSE From(rv.buf, res.end)
       IN  IF res.st = "eof" \/ (rv.short /\ readFails)
           THEN \* the Read that should complete the value returns an error
                /\ Fail(IF readFails THEN "read error" ELSE "unexpected EOF")
                /\ buf' = rv.buf
                /\ r' = rv.r
                /\ UNCHANGED <<data, errText>>
           ELSE IF res.st = "syntax" \/ raw.t = "null"
           THEN \* case nil: the buffered bytes become words; a new decoder
                IF TooLong(ScanWords(subR, 1, <<>>, <<>>))
                THEN \* log.Fatalf: the process exits
                     /\ pc' = "fatal"
                     /\ buf' = <<>>
                     /\ r' = rv.r
                     /\ UNCHANGED <<data, err, errText, cmds>>
                ELSE /\ data' = data \o WordRows(subR)
                     /\ buf' = <<>>
                     /\ r' = Restart(<<>>, rv.r)
                     /\ pc' = "more"
                     /\ UNCHANGED <<err, errText, cmds>>
           ELSE /\ buf' = From(rv.buf, res.end)
                /\ r' = rv.r
                /\ IF raw.t = "arr"
                   THEN /\ data' = data \o ArrayRows(raw, explodeArrays)
                        /\ UNCHANGED errText
                        /\ IF explodeArrays /\ ObjectPrefix(raw.es) < Len(raw.es)
                           THEN Fail("invalid piped data")
                           ELSE /\ pc' = "more"
                                /\ UNCHANGED <<err, cmds>>
                   ELSE IF raw.t = "obj"
                   THEN /\ data' = data \o ObjectRows(raw)
                        /\ pc' = "more"
                        /\ UNCHANGED <<err, errText, cmds>>
                   ELSE /\ Fail("unexpected type")
                        /\ errText' = truncatedValue(raw)
                        /\ UNCHANGED data
    /\ UNCHANGED <<piped, args, explodeArrays, chunk, maxTokenSize, readFails,
                   others>>

\* Commands without the len(data) == 0 case: templates are always expanded
Commands_AlwaysExpand(dt, as) ==
    IF Len(dt) = 0 THEN << [argI \in 1..Len(as) |-> transform(<<>>, as[argI]).s] >>
    ELSE [rowI \in 1..Len(dt) |->
            [argI \in 1..Len(as) |-> transform(dt[rowI], as[argI]).s]]

\* Commands with one row per template instead of one row per record
Commands_Transposed(dt, as) ==
    IF Len(dt) = 0 THEN <<as>>
    ELSE [argI \in 1..Len(as) |->
            [rowI \in 1..Len(dt) |-> transform(dt[rowI], as[argI]).s]]

\* the matrix InputToCommands builds from data
Commands(dt, as) ==
    IF Len(dt) = 0 THEN <<as>>
    ELSE [rowI \in 1..Len(dt) |->
            [argI \in 1..Len(as) |-> transform(dt[rowI], as[argI]).s]]

\* InputToCommands after readData has returned data, nil
Return ==
    /\ pc = "expand"
    /\ IF /\ Len(data) # 0
          /\ \E rowI \in 1..Len(data), argI \in 1..Len(args) :
                transform(data[rowI], args[argI]).panic
       THEN /\ pc' = "panic"
            /\ cmds' = <<>>
       ELSE /\ pc' = "done"
            /\ cmds' = Commands(data, args)
    /\ UNCHANGED <<piped, args, explodeArrays, chunk, maxTokenSize, readFails,
                   r, buf,
                   data, err, errText, others>>

Next == More \/ Decode \/ Return

Spec == Init /\ [][Next]_vars

\* InputToCommands on a pipe that delivers its bytes whole or a few at a time,
\* with the scanner's token limit scaled down
InitEdge ==
    /\ piped \in EdgeInputs
    /\ args = <<TplPos>>
    /\ explodeArrays = FALSE
    /\ chunk \in (1..MaxChunk) \cup {minRead}
    /\ maxTokenSize = ScaledTokenSize
    /\ readFails = FALSE
    /\ r = Concat(piped)
    /\ buf = <<>>
    /\ data = <<>>
    /\ pc = "more"
    /\ err = NoError
    /\ errText = <<>>
    /\ cmds = <<>>
    /\ call = NoCall
    /\ ret = <<>>
    /\ exec = NoExec

SpecEdge == InitEdge /\ [][Next]_vars

\* InputToCommands on a pipe that ends in io.EOF or in a read error, on
\* nulls, empty arrays and objects that are cut off
InitTail ==
    /\ piped \in TailInputs
    /\ args = <<TplPath, TplPos>>
    /\ explodeArrays \in BOOLEAN
    /\ chunk = minRead
    /\ maxTokenSize = MaxScanTokenSize
    /\ readFails \in BOOLEAN
    /\ r = Concat(piped)
    /\ buf = <<>>
    /\ data = <<>>
    /\ pc = "more"
    /\ err = NoError
    /\ errText = <<>>
    /\ cmds = <<>>
    /\ call = NoCall
    /\ ret = <<>>
    /\ exec = NoExec

SpecTail == InitTail /\ [][Next]_vars

(***************************************************************************)
(* Properties                                                              *)
(***************************************************************************)

Returned == pc \in {"done", "error", "panic"}

\* C1: for any template list, an empty byte stream makes InputToCommands
\* return, without error, exactly one row that is the template list itself,
\* with no marker expanded; an empty stream never reaches Decode or an error.
C1_EmptyInputPassThrough ==
    /\ (Concat(piped) = <<>> /\ pc # "more") =>
            /\ pc \in {"expand", "done"}
            /\ data = <<>>
            /\ err = NoError
    /\ (Concat(piped) = <<>> /\ Returned) =>
            /\ pc = "done"
            /\ err = NoError
            /\ cmds = <<args>>

C1_Witness ==
    /\ pc = "done"
    /\ Concat(piped) = <<>>
    /\ args = <<TplPath, TplPos>>
    /\ cmds = << <<TplPath, TplPos>> >>

\* C2: when readData yields n > 0 records and there are k templates, the
\* returned matrix has n rows of k strings, and entry (i, j) is template j
\* expanded against record i.
C2_MatrixShape ==
    (pc = "done" /\ Len(data) > 0) =>
        /\ err = NoError
        /\ Len(cmds) = Len(data)
        /\ \A i \in 1..Len(cmds) :
              /\ Len(cmds[i]) = Len(args)
              /\ \A j \in 1..Len(args) :
                    cmds[i][j] = Expand(args[j], 1, data[i]).s

C2_Witness ==
    /\ pc = "done"
    /\ Len(data) = 3
    /\ Len(args) = 2
    /\ data[1] # data[2]
    /\ cmds[1] # cmds[2]
    /\ cmds[1][1] # cmds[1][2]

(***************************************************************************)
(* Expected records and rows, written out                                  *)
(***************************************************************************)

\* {"x":"y"}
RecOxy == <<"{", "\"", "x", "\"", ":", "\"", "y", "\"", "}">>

\* {"a":"c","x":"z"}
RecOml == <<"{", "\"", "a", "\"", ":", "\"", "c", "\"", ",",
            "\"", "x", "\"", ":", "\"", "z", "\"", "}">>

\* {"a":"c"}
RecAC == <<"{", "\"", "a", "\"", ":", "\"", "c", "\"", "}">>

\* {"a":"d"}
RecAD == <<"{", "\"", "a", "\"", ":", "\"", "d", "\"", "}">>

\* [{"a":"c"},{"a":"d"}]
RecArr == <<"[">> \o RecAC \o <<",">> \o RecAD \o <<"]">>

\* [{"a":"c"},1]
RecMix == <<"[">> \o RecAC \o <<",", "1", "]">>

\* "a b "
AB == <<"a", " ", "b", " ">>

Pieces == {piped[i] : i \in 1..Len(piped)}

RECURSIVE ExpectedRecords(_, _)
\* the records of an input made of JSON pieces and white space
ExpectedRecords(fs, explode) ==
    IF fs = <<>> THEN <<>>
    ELSE (CASE fs[1] = "oxy" -> << <<RecOxy>> >>
            [] fs[1] = "oml" -> << <<RecOml>> >>
            [] fs[1] = "arr" -> IF explode THEN << <<RecAC>>, <<RecAD>> >>
                                ELSE << <<RecArr>> >>
            [] fs[1] = "mix" -> IF explode THEN << <<RecAC>> >>
                                ELSE << <<RecMix>> >>
            [] OTHER -> <<>>) \o ExpectedRecords(Tail(fs), explode)

RECURSIVE PieceWords(_, _, _)
\* the white-space delimited tokens of an input made of plain-text pieces
PieceWords(fs, cur, acc) ==
    IF fs = <<>> THEN (IF cur = <<>> THEN acc ELSE Append(acc, cur))
    ELSE IF fs[1] \in {"sp", "nl"}
         THEN PieceWords(Tail(fs), <<>>, IF cur = <<>> THEN acc ELSE Append(acc, cur))
         ELSE PieceWords(Tail(fs), cur \o FragText[fs[1]], acc)

\* C3: for plain-text input, every white-space delimited token becomes its
\* own one-field record, in input order; "a b $1" over "c d" gives the rows
\* ["a b c"] and ["a b d"].
C3_PlainTextTokens ==
    /\ (Pieces \subseteq {"sp", "nl", "c", "d", "t"} /\ pc \notin {"more", "decode"}) =>
            /\ pc # "error"
            /\ data = [i \in 1..Len(PieceWords(piped, <<>>, <<>>)) |->
                            <<PieceWords(piped, <<>>, <<>>)[i]>>]
    /\ (piped = <<"c", "sp", "d">> /\ args = <<TplPos>> /\ pc = "done") =>
            cmds = << <<AB \o <<"c">> >>, <<AB \o <<"d">> >> >>

\* C4: input that is a sequence of JSON objects (an object may span lines)
\* gives one single-field record per object, in input order, holding the
\* object's compact serialization; ${1.x} is resolved against each object.
C4_ObjectPerRecord ==
    (Pieces \subseteq {"sp", "nl", "oxy", "oml"} /\ pc \notin {"more", "decode"}) =>
        /\ pc # "error"
        /\ data = ExpectedRecords(piped, explodeArrays)
        /\ (pc = "done" /\ args = <<TplPath, TplPos>> /\ Len(data) > 0) =>
              /\ Len(cmds) = Len(data)
              /\ \A i \in 1..Len(data) :
                    cmds[i] = << AB \o (IF data[i] = <<RecOxy>> THEN <<"y">> ELSE <<"z">>),
                                 AB \o data[i][1] >>

C4_Witness ==
    /\ pc = "done"
    /\ piped = <<"oxy", "nl", "oml">>
    /\ args = <<TplPath, TplPos>>
    /\ cmds = << <<AB \o <<"y">>, AB \o RecOxy>>, <<AB \o <<"z">>, AB \o RecOml>> >>

\* C5: with explodeArrays, a top-level array of objects contributes one
\* single-field record per element, in array order, each the element's
\* compact serialization, at the array's place among the other records.
C5_ExplodedArray ==
    (/\ explodeArrays
     /\ "arr" \in Pieces
     /\ Pieces \subseteq {"sp", "nl", "oxy", "oml", "arr"}
     /\ pc \notin {"more", "decode"}) =>
        /\ pc # "error"
        /\ data = ExpectedRecords(piped, TRUE)
        /\ (pc = "done" /\ args = <<TplBoth>>) =>
              /\ Len(cmds) = Len(data)
              /\ \A i \in 1..Len(data) :
                    /\ data[i] = <<RecAC>> => cmds[i] = <<AB \o <<"c", " ">> \o RecAC>>
                    /\ data[i] = <<RecAD>> => cmds[i] = <<AB \o <<"d", " ">> \o RecAD>>

C5_Witness ==
    /\ pc = "done"
    /\ explodeArrays
    /\ piped = <<"oxy", "arr", "oml">>
    /\ data = << <<RecOxy>>, <<RecAC>>, <<RecAD>>, <<RecOml>> >>
    /\ args = <<TplBoth>>
    /\ cmds[2] = <<AB \o <<"c", " ">> \o RecAC>>
    /\ cmds[3] = <<AB \o <<"d", " ">> \o RecAD>>

\* C6: without explodeArrays, a top-level array, whatever its elements, is
\* one record whose single field is the serialized array; $1 renders that
\* text and ${1.a} the elements' values for a as a bracketed list.
C6_WholeArray ==
    (/\ ~explodeArrays
     /\ Pieces \cap {"arr", "mix"} # {}
     /\ Pieces \subseteq {"sp", "nl", "oxy", "oml", "arr", "mix"}
     /\ pc \notin {"more", "decode"}) =>
        /\ pc # "error"
        /\ data = ExpectedRecords(piped, FALSE)
        /\ (pc = "done" /\ args = <<TplBoth>>) =>
              /\ Len(cmds) = Len(data)
              /\ \A i \in 1..Len(data) :
                    /\ data[i] = <<RecArr>> =>
                          cmds[i] = <<AB \o <<"[", "c", " ", "d", "]", " ">> \o RecArr>>
                    /\ data[i] = <<RecMix>> =>
                          cmds[i] = <<AB \o <<"[", "c", "]", " ">> \o RecMix>>

C6_Witness ==
    /\ pc = "done"
    /\ ~explodeArrays
    /\ piped = <<"arr", "mix">>
    /\ data = << <<RecArr>>, <<RecMix>> >>
    /\ args = <<TplBoth>>
    /\ cmds = << <<AB \o <<"[", "c", " ", "d", "]", " ">> \o RecArr>>,
                 <<AB \o <<"[", "c", "]", " ">> \o RecMix>> >>

\* C7: with explodeArrays, an array element that is not an object makes
\* InputToCommands fail with "invalid piped data" and return no matrix: the
\* records read before it are not returned.
C7_InvalidPipedData ==
    /\ (/\ explodeArrays
        /\ "mix" \in Pieces
        /\ Pieces \subseteq {"sp", "nl", "oxy", "oml", "arr", "mix"}
        /\ pc \notin {"more", "decode"}) =>
            /\ pc = "error"
            /\ err = "invalid piped data"
    /\ pc = "error" => cmds = <<>>

C7_Witness ==
    /\ pc = "error"
    /\ err = "invalid piped data"
    /\ explodeArrays
    /\ piped = <<"oxy", "mix">>
    /\ data = << <<RecOxy>>, <<RecAC>> >>
    /\ cmds = <<>>

\* <nil>
Nil == <<"<", "n", "i", "l", ">">>

\* C8: a marker whose position is below 1 (0 or negative) or above the
\* record's field count is replaced by <nil>, and expansion completes.
C8_OutOfRangeIsNil ==
    (/\ pc \in {"done", "panic"}
     /\ Len(data) > 0
     /\ args \in {<<TplHigh, TplNeg>>, <<TplZero>>}) =>
        /\ pc = "done"
        /\ \A i \in 1..Len(cmds) :
              cmds[i] = IF args = <<TplZero>> THEN << <<"a", " ">> \o Nil >>
                        ELSE << AB \o Nil \o <<" ">> \o Nil, Nil >>

C10_BareDotPath ==
    (pc = "done" /\ args = <<TplBare, TplBraced>>) =>
        \A i \in 1..Len(data) :
            data[i] = <<RecOxy>> =>
                /\ cmds[i][1] = <<"f", "o", "o", " ", "y">>
                /\ cmds[i][1] = cmds[i][2]

(***************************************************************************)
(* Properties of InputToCommands on edge inputs and slow pipes             *)
(***************************************************************************)

ScalarNames == {"one", "str", "tru"}

RECURSIVE Ones(_)
\* the digits of the adjacent pieces "one" at the head of fs
Ones(fs) ==
    IF fs # <<>> /\ fs[1] = "one" THEN <<"1">> \o Ones(Tail(fs)) ELSE <<>>

RECURSIVE FirstScalar(_)
\* fmt.Sprint of the first string, number or boolean among the pieces fs
FirstScalar(fs) ==
    CASE fs[1] = "one" -> Ones(fs)
      [] fs[1] = "str" -> <<"s">>
      [] fs[1] = "tru" -> <<"t", "r", "u", "e">>
      [] OTHER -> FirstScalar(Tail(fs))

\* C12: when a top-level value decodes as a JSON string, number or boolean,
\* InputToCommands fails with the unexpected-type error carrying the
\* (truncated) rendering of the value and returns no rows; the value never
\* becomes a record.
C12_ScalarIsUnexpectedType ==
    (/\ Pieces \subseteq {"sp", "oxy"} \cup ScalarNames
     /\ Pieces \cap ScalarNames # {}) =>
        /\ pc \notin {"expand", "done", "fatal", "panic"}
        /\ \A i \in 1..Len(data) : data[i] = <<RecOxy>>
        /\ Returned =>
                /\ pc = "error"
                /\ err = "unexpected type"
                /\ errText = FirstScalar(piped)
                /\ cmds = <<>>

\* {"x":"y"}11 read two bytes at a time has failed on the number 11
C12_Witness ==
    /\ piped = <<"oxy", "one", "one">>
    /\ chunk = 2
    /\ pc = "error"
    /\ err = "unexpected type"
    /\ errText = <<"1", "1">>
    /\ data = << <<RecOxy>> >>
    /\ cmds = <<>>

\* the bytes of s that are not white space
NonSpace(s) == SelectSeq(s, LAMBDA ch : ch \notin {" ", "\t", "\n", "\r"})

RECURSIVE Fields(_)
\* the bytes of the records rows, in order
Fields(rows) ==
    IF rows = <<>> THEN <<>> ELSE rows[1][1] \o Fields(Tail(rows))

\* C13: the fallback loses no input byte: for input of words and compact
\* objects, however the pipe cuts it and however often the fallback runs, the
\* bytes of the records so far followed by the bytes still to be decoded are
\* the non-white-space bytes of the input, each once and in order; when
\* InputToCommands returns its rows the records hold them all.
C13_FallbackKeepsBytes ==
    (Pieces \subseteq {"sp", "c", "d", "oxy"} /\ pc # "error") =>
        /\ pc \in {"more", "decode", "expand", "done"}
        /\ Fields(data) \o NonSpace(buf \o r) = NonSpace(Concat(piped))
        /\ pc \in {"expand", "done"} => Fields(data) = NonSpace(Concat(piped))

\* c d read one byte at a time: two fallbacks, two records, every byte in
\* one of them
C13_Witness ==
    /\ piped = <<"c", "sp", "d">>
    /\ chunk = 1
    /\ pc = "done"
    /\ data = << <<<<"c">>>>, <<<<"d">>>> >>

\* C14: a scan failure in the fallback (a buffered word too long for the
\* scanner) comes back to the caller of InputToCommands as a returned error;
\* the process is never ended.
C14_ScanFailureIsReturned == pc # "fatal"

\* C19: the records of plain-text input do not depend on how the pipe cuts
\* the input into reads: a word that goes on past the end of the buffered
\* bytes is still one record, so the records are the words of the input.
C19_ChunkingDoesNotSplitWords ==
    (Pieces \subseteq {"sp", "c", "d"} /\ pc \in {"expand", "done"}) =>
        data = [i \in 1..Len(PieceWords(piped, <<>>, <<>>)) |->
                    <<PieceWords(piped, <<>>, <<>>)[i]>>]

\* C20: when readData returns its records the whole input has been consumed:
\* a stray ']' or '}' where a value should start does not end the loop with
\* objects or words after it unread.
C20_WholeInputConsumed ==
    pc \in {"expand", "done"} => NonSpace(buf \o r) = <<>>

(***************************************************************************)
(* Functions called by themselves                                          *)
(***************************************************************************)

\* InputToCommands is not running
Idle ==
    /\ piped = <<>>
    /\ args = <<>>
    /\ explodeArrays = FALSE
    /\ chunk = minRead
    /\ maxTokenSize = MaxScanTokenSize
    /\ readFails = FALSE
    /\ r = <<>>
    /\ buf = <<>>
    /\ data = <<>>
    /\ pc = "idle"
    /\ err = NoError
    /\ errText = <<>>
    /\ cmds = <<>>

inputVars ==
    <<piped, args, explodeArrays, chunk, maxTokenSize, readFails,
                   r, buf, data, pc, err,
      errText, cmds>>

\* longest marker name
MaxTok == 3

\* the characters of a marker name
TokChars == {"0", "1", "-", "+", ".", "x"}

\* the marker names parseTransform is called with
Tokens == UNION {[1..n -> TokChars] : n \in 0..MaxTok}

ParseCalls == {[fn |-> "parseTransform", arg |-> t] : t \in Tokens}

\* a call of parseTransform returns
CallParseTransform ==
    /\ call.fn = "parseTransform"
    /\ ret = <<>>
    /\ ret' = <<parseTransform(call.arg)>>
    /\ UNCHANGED <<inputVars, call, exec>>

\* the text is an optional sign followed by digits only, at least one
IsInteger(t) ==
    LET ds == IF t # <<>> /\ t[1] \in {"+", "-"} THEN Tail(t) ELSE t
    IN  /\ Len(ds) > 0
        /\ \A i \in 1..Len(ds) : ds[i] \in DigitSet

RECURSIVE Pow10(_)
Pow10(k) == IF k = 0 THEN 1 ELSE 10 * Pow10(k - 1)

RECURSIVE PlaceSum(_, _)
\* the digits ds[i..] read as a decimal number
PlaceSum(ds, i) ==
    IF i > Len(ds) THEN 0
    ELSE DigitVal(ds[i]) * Pow10(Len(ds) - i) + PlaceSum(ds, i + 1)

\* the integer an integer text denotes
IntegerOf(t) ==
    IF t[1] = "-" THEN 0 - PlaceSum(Tail(t), 1)
    ELSE IF t[1] = "+" THEN PlaceSum(Tail(t), 1)
    ELSE PlaceSum(t, 1)

\* C11: parseTransform returns for every token: (n, "") when the token has
\* no '.' and is an integer n; (1, token) when it has no '.' and is not an
\* integer; (n, text after the first '.') when the text before the first '.'
\* is an integer n; (1, the whole token) when the text before the first '.'
\* is not an integer.
C11_ParseTransformCases ==
    (call.fn = "parseTransform" /\ ret # <<>>) =>
        LET t == call.arg
            dots == {i \in 1..Len(t) : t[i] = "."}
            first == CHOOSE i \in dots : \A j \in dots : i <= j
            before == SubSeq(t, 1, first - 1)
            after == SubSeq(t, first + 1, Len(t))
        IN  /\ DOMAIN ret[1] = {"position", "jsonQuery"}
            /\ (dots = {} /\ IsInteger(t)) =>
                    ret[1] = [position |-> IntegerOf(t), jsonQuery |-> <<>>]
            /\ (dots = {} /\ ~IsInteger(t)) =>
                    ret[1] = [position |-> 1, jsonQuery |-> t]
            /\ (dots # {} /\ IsInteger(before)) =>
                    ret[1] = [position |-> IntegerOf(before), jsonQuery |-> after]
            /\ (dots # {} /\ ~IsInteger(before)) =>
                    ret[1] = [position |-> 1, jsonQuery |-> t]

\* parseTransform has returned for the token "1..", which has two dots
C11_Witness ==
    /\ call.fn = "parseTransform"
    /\ call.arg = <<"1", ".", ".">>
    /\ ret = << [position |-> 1, jsonQuery |-> <<".">>] >>

\* longest template
MaxTpl == 4

\* the characters of a template
TplChars == {"a", "$", "{", "}", " "}

Templates == UNION {[1..n -> TplChars] : n \in 0..MaxTpl}

\* the records transform is called with
Records == { <<<<"c">>>>, <<RecOxy>> }

TransformCalls ==
    {[fn |-> "transform", arg |-> [data |-> d, arg |-> t]] :
        d \in Records, t \in Templates}

\* a call of transform returns
CallTransform ==
    /\ call.fn = "transform"
    /\ ret = <<>>
    /\ ret' = <<transform(call.arg.data, call.arg.arg)>>
    /\ UNCHANGED <<inputVars, call, exec>>

\* no '$' of t starts a marker with a name: each is the last character, or
\* before a space or a '}', or opens "${}" or a "${" that is never closed
NoMarker(t) ==
    \A i \in 1..Len(t) :
        t[i] = "$" =>
            \/ i = Len(t)
            \/ t[i + 1] \in {" ", "}"}
            \/ /\ t[i + 1] = "{"
               /\ \/ i + 2 <= Len(t) /\ t[i + 2] = "}"
                  \/ \A j \in (i + 2)..Len(t) : t[j] # "}"

\* C15 as stated: template text that is no well-formed marker ('$' before a
\* non-name character, a trailing '$', "${}", an unclosed "${", text without
\* '$') is the same in the expanded string.
C15_MalformedVerbatim ==
    (call.fn = "transform" /\ ret # <<>> /\ NoMarker(call.arg.arg)) =>
        ret[1] = [panic |-> FALSE, s |-> call.arg.arg]

RECURSIVE WithoutBadBraces(_, _)
\* t from position i on without its "${}" and its "${"
WithoutBadBraces(t, i) ==
    IF i > Len(t) THEN <<>>
    ELSE IF t[i] = "$" /\ i < Len(t) /\ t[i + 1] = "{"
         THEN (IF i + 2 <= Len(t) /\ t[i + 2] = "}"
               THEN WithoutBadBraces(t, i + 3)
               ELSE WithoutBadBraces(t, i + 2))
         ELSE <<t[i]>> \o WithoutBadBraces(t, i + 1)

\* C15 amended: a '$' before a character that is no name character, no shell
\* special character and no '{', a trailing '$' and text without '$' are the
\* same in the expanded string; an empty "${}" and the "${" of an unclosed
\* brace are left out of it, the text around them is the same.
C15_MalformedVerbatimButBraces ==
    (call.fn = "transform" /\ ret # <<>> /\ NoMarker(call.arg.arg)) =>
        /\ ret[1] = [panic |-> FALSE, s |-> WithoutBadBraces(call.arg.arg, 1)]
        /\ (\A i \in 1..(Len(call.arg.arg) - 1) :
                ~(call.arg.arg[i] = "$" /\ call.arg.arg[i + 1] = "{"))
                    => ret[1].s = call.arg.arg

\* "a${}" has expanded to "a"
C15_Witness ==
    /\ call.fn = "transform"
    /\ call.arg.arg = <<"a", "$", "{", "}">>
    /\ ret = << [panic |-> FALSE, s |-> <<"a">>] >>

\* most characters of a rendering beyond truncationLength
MaxOver == 3

\* n times the character ch
Repeat(ch, n) == [i \in 1..n |-> ch]

\* the values truncatedValue is called with: strings of one character
TruncCalls ==
    {[fn |-> "truncatedValue", arg |-> [n |-> n, ch |-> ch]] :
        n \in 0..(truncationLength + MaxOver), ch \in {"a", "\""}}

\* a call of truncatedValue returns
CallTruncatedValue ==
    /\ call.fn = "truncatedValue"
    /\ ret = <<>>
    /\ ret' = <<truncatedValue(StrV(Repeat(call.arg.ch, call.arg.n)))>>
    /\ UNCHANGED <<inputVars, call, exec>>

\* C16: truncatedValue returns the rendering unchanged when its length is at
\* most 512, 512 included; otherwise the first 512 characters in quoted form
\* followed by "...\n[Value truncated]".
C16_TruncatedValue ==
    (call.fn = "truncatedValue" /\ ret # <<>>) =>
        LET n == call.arg.n
            ch == call.arg.ch
            quoted == IF ch = "\"" THEN [i \in 1..1024 |->
                                            IF i % 2 = 1 THEN "\\" ELSE "\""]
                      ELSE [i \in 1..512 |-> ch]
        IN  /\ n <= 512 => ret[1] = [i \in 1..n |-> ch]
            /\ n > 512 =>
                    ret[1] = <<"\"">> \o quoted \o <<"\"">> \o
                             <<".", ".", ".", "\n", "[", "V", "a", "l", "u", "e",
                               " ", "t", "r", "u", "n", "c", "a", "t", "e", "d",
                               "]">>

\* truncatedValue has returned a rendering of exactly 512 characters as it is
C16_Witness ==
    /\ call.fn = "truncatedValue"
    /\ call.arg.n = 512
    /\ Len(ret) = 1
    /\ Len(ret[1]) = 512

(***************************************************************************)
(* processResponse (package cmd)                                           *)
(***************************************************************************)

\* copyNewline without headers to add: the body, then a line end
copyNewline(body) == body \o <<"\n">>

\* what processResponse writes and returns
Outcome(out, errOut, e) == [stdout |-> out, stderr |-> errOut, err |-> e]

UnexpectedStatus == "Unexpected status from response"

\* processResponse that returns the error for "report" as well
processResponse_ReportFails(conf, resp) ==
    IF resp.nil THEN Outcome(<<>>, <<>>, NoError)
    ELSE IF resp.StatusCode < 400
    THEN Outcome(copyNewline(resp.Body), <<>>, NoError)
    ELSE CASE conf.onError = "silence" -> Outcome(<<>>, <<>>, NoError)
           [] conf.onError = "fatal" ->
                Outcome(<<>>, copyNewline(resp.Body), UnexpectedStatus)
           [] conf.onError = "continue" ->
                Outcome(copyNewline(resp.Body), <<>>, NoError)
           [] conf.onError = "report" ->
                Outcome(<<>>, copyNewline(resp.Body), UnexpectedStatus)
           [] OTHER -> Outcome(copyNewline(resp.Body), <<>>, NoError)

\* processResponse with conf.printHeaders unset and writes that succeed
processResponse(conf, resp) ==
    IF resp.nil THEN Outcome(<<>>, <<>>, NoError)
    ELSE IF resp.StatusCode < 400
    THEN Outcome(copyNewline(resp.Body), <<>>, NoError)
    ELSE CASE conf.onError = "silence" -> Outcome(<<>>, <<>>, NoError)
           [] conf.onError = "fatal" ->
                Outcome(<<>>, copyNewline(resp.Body), UnexpectedStatus)
           [] conf.onError = "continue" ->
                Outcome(copyNewline(resp.Body), <<>>, NoError)
           [] conf.onError = "report" ->
                Outcome(<<>>, copyNewline(resp.Body), NoError)
           [] OTHER -> Outcome(copyNewline(resp.Body), <<>>, NoError)

\* the values of the flag on-error: the four strategies and any other text
OnErrors == {"silence", "fatal", "continue", "report", "other"}

StatusCodes == {200, 204, 301, 399, 400, 404, 500}

Bodies == { <<>>, <<"{", "}">> }

\* the responses httpRun hands to processResponse; none on a dry run
Responses ==
    {[nil |-> FALSE, StatusCode |-> c, Body |-> b] : c \in StatusCodes, b \in Bodies}
        \cup {[nil |-> TRUE, StatusCode |-> 0, Body |-> <<>>]}

ResponseCalls ==
    {[fn |-> "processResponse", arg |-> [conf |-> [onError |-> o], resp |-> rs]] :
        o \in OnErrors, rs \in Responses}

\* a call of processResponse returns
CallProcessResponse ==
    /\ call.fn = "processResponse"
    /\ ret = <<>>
    /\ ret' = <<processResponse(call.arg.conf, call.arg.resp)>>
    /\ UNCHANGED <<inputVars, call, exec>>

InitPure ==
    /\ Idle
    /\ \/ call \in ParseCalls
       \/ call \in TransformCalls
       \/ call \in TruncCalls
       \/ call \in ResponseCalls
    /\ ret = <<>>
    /\ exec = NoExec

NextPure ==
    \/ CallParseTransform
    \/ CallTransform
    \/ CallTruncatedValue
    \/ CallProcessResponse

SpecPure == InitPure /\ [][NextPure]_vars

(***************************************************************************)
(* execute (package cmd): the loop over the command rows                   *)
(***************************************************************************)

\* most rows of the matrix userCmd
MaxRows == 4

\* execute at the head of its loop over n rows, of which those in fails make
\* RootCmd.Execute return an error; err = 0 is nil, err = k the error of row k
ExecLoop(n, fails) ==
    [pc |-> "loop", rows |-> n, fails |-> fails, i |-> 1,
     started |-> <<>>, returned |-> <<>>, err |-> 0]

\* RowReturns that goes on to the next row after an error and returns the
\* error only after the last row
RowReturns_KeepsGoing(e) ==
    [e EXCEPT !.pc = "loop",
              !.i = e.i + 1,
              !.returned = Append(e.returned, e.i),
              !.err = IF e.i \in e.fails THEN e.i ELSE e.err]

\* RootCmd.Execute returns for row e.i: "if err != nil { return err }"
RowReturns(e) ==
    IF e.i \in e.fails
    THEN [e EXCEPT !.pc = "returned",
                   !.returned = Append(e.returned, e.i),
                   !.err = e.i]
    ELSE [e EXCEPT !.pc = "loop",
                   !.i = e.i + 1,
                   !.returned = Append(e.returned, e.i)]

\* RootCmd.SetArgs(userCmd); RootCmd.Execute() is called for the next row
ExecuteRow ==
    /\ exec.pc = "loop"
    /\ exec.i <= exec.rows
    /\ exec' = [exec EXCEPT !.pc = "run", !.started = Append(exec.started, exec.i)]
    /\ UNCHANGED <<inputVars, call, ret>>

\* RootCmd.Execute returns
RowReturned ==
    /\ exec.pc = "run"
    /\ exec' = RowReturns(exec)
    /\ UNCHANGED <<inputVars, call, ret>>

\* the loop is over: return nil
ExecuteReturns ==
    /\ exec.pc = "loop"
    /\ exec.i > exec.rows
    /\ exec' = [exec EXCEPT !.pc = "returned"]
    /\ UNCHANGED <<inputVars, call, ret>>

InitExec ==
    /\ Idle
    /\ call = NoCall
    /\ ret = <<>>
    /\ \E n \in 1..MaxRows : \E fails \in SUBSET (1..n) : exec = ExecLoop(n, fails)

NextExec == ExecuteRow \/ RowReturned \/ ExecuteReturns

SpecExec == InitExec /\ [][NextExec]_vars

\* C18: execute runs the rows one after another in matrix order: a row is
\* started only when every row before it has returned, and once a row has
\* returned an error execute has returned that error and no later row is
\* ever started.
C18_RowsInSeries ==
    /\ \A k \in 1..Len(exec.started) : exec.started[k] = k
    /\ \A k \in 1..Len(exec.returned) : exec.returned[k] = k
    /\ Len(exec.returned) <= Len(exec.started)
    /\ Len(exec.started) <= Len(exec.returned) + 1
    /\ \A k \in 1..Len(exec.returned) :
            exec.returned[k] \in exec.fails =>
                /\ exec.pc = "returned"
                /\ exec.err = exec.returned[k]
                /\ Len(exec.started) = k
    /\ (exec.pc = "returned" /\ exec.err = 0) =>
            /\ Len(exec.returned) = exec.rows
            /\ exec.fails = {}

\* of four rows the second has failed: execute has returned its error after
\* starting rows 1 and 2 only, although row 3 would fail too
C18_Witness ==
    /\ exec.pc = "returned"
    /\ exec.rows = 4
    /\ exec.fails = {2, 3}
    /\ exec.err = 2
    /\ exec.started = <<1, 2>>
    /\ exec.returned = <<1, 2>>

(***************************************************************************)
(* Properties of InputToCommands at the end of the input                   *)
(***************************************************************************)

\* C21: when the pipe fails with a read error that is not io.EOF, wherever
\* that happens, InputToCommands returns an error: it never returns rows
\* built from the records read before the failure.
C21_ReadErrorIsReturned ==
    (readFails /\ Returned) => (pc = "error" /\ cmds = <<>>)

\* C22: a top-level null is not dropped silently: for input of nulls, objects
\* and white space read to its end, either the unexpected-type error is
\* returned or every null and every object has its record.
C22_NullIsNotDropped ==
    (/\ Pieces \subseteq {"sp", "nul", "oxy"}
     /\ "nul" \in Pieces
     /\ ~readFails
     /\ \A i \in 1..(Len(piped) - 1) : piped[i] = "nul" => piped[i + 1] = "sp"
     /\ Returned) =>
        \/ pc = "error" /\ err = "unexpected type"
        \/ pc = "done" /\ Len(data) = Cardinality({i \in 1..Len(piped) : piped[i] # "sp"})

\* C23: input that ends in the middle of a JSON value, such as {"a": at the
\* end of the input, is recovered by the fallback like other invalid JSON:
\* its white-space delimited tokens become the records and InputToCommands
\* returns no error.
C23_TruncatedJsonIsRecovered ==
    (Pieces \subseteq {"sp", "c", "ob"} /\ ~readFails /\ Returned) =>
        /\ pc = "done"
        /\ err = NoError
        /\ Len(data) = Len(PieceWords(piped, <<>>, <<>>))
        /\ \A i \in 1..Len(data) : data[i] = <<PieceWords(piped, <<>>, <<>>)[i]>>

\* C24: with explodeArrays, input that is nothing but an empty array []
\* gives no record and no error, and InputToCommands returns the one row of
\* its templates unexpanded, the marker text ${1.x} included, as it does
\* when nothing is piped.
C24_EmptyArrayPassThrough ==
    (/\ Pieces \subseteq {"sp", "ea"}
     /\ "ea" \in Pieces
     /\ explodeArrays
     /\ ~readFails) =>
        /\ pc \notin {"error", "panic", "fatal"}
        /\ err = NoError
        /\ data = <<>>
        /\ pc = "done" => cmds = <<args>>
        /\ pc = "done" => cmds[1][1] = <<"a", " ", "b", " ", "$", "{", "1", ".", "x", "}">>

\* [] has been read with explodeArrays and the templates are returned as
\* they are
C24_Witness ==
    /\ piped = <<"ea">>
    /\ explodeArrays
    /\ ~readFails
    /\ pc = "done"
    /\ data = <<>>
    /\ cmds = << <<TplPath, TplPos>> >>

====
